---- MODULE Spec2Model ----
(***************************************************************************)
(* A model of simplept.cpp, a Monte Carlo path tracer:                     *)
(*   - the visibility oracle isVisibile and the ray/sphere queries         *)
(*     it is built on (SpecVis);                                           *)
(*   - main: the sample count, the per-thread generators and the OpenMP    *)
(*     loop over the rows of the image (SpecRender);                       *)
(*   - the radiance estimator receivedRadiance as a stack of calls         *)
(*     (SpecPath), and without a limit on its depth (FairPath).            *)
(* In SpecVis coordinates are integer-valued reals; rays are axis-aligned  *)
(* so that normalize and sqrt are exact on the inputs the model draws.     *)
(* In SpecPath a double is a fixed-point number, NaN or infinity.          *)
(***************************************************************************)
EXTENDS Integers, Sequences, FiniteSets, TLC

VARIABLES
    scene,      \* the sphere list read by intersect (spheres[])
    vcall,      \* the last isVisibile call: its arguments and what it returned
    argc,       \* main's argc
    argv1,      \* argv[1] as a sequence of characters (<< >> when absent)
    nprocs,     \* what omp_get_num_procs() returns
    pcMain,     \* where main is: "init", "fork", "parallel", "output", "done"
    team,       \* number of threads of the parallel region
    engines,    \* rng.engines: per engine, the state of its mt19937
    engineUsers,\* per engine, the threads that advanced it
    oob,        \* TRUE once rng() indexed engines outside its size
    samps,      \* samples per sub-pixel
    c,          \* the pixel accumulators, in units of 1/(4*samps)
    cWriters,   \* per accumulator, the threads that wrote it
    cWrites,    \* per accumulator, how many times it was written
    nextRow,    \* next iteration the dynamic schedule hands out
    rowTakers,  \* per row, the threads it was handed to
    wk,         \* per thread: pc and the loop variables y, x
    rays,       \* per pixel, camera rays traced so far
    touched,    \* per engine and per accumulator, the pixels (x, y) whose
                \* computation read or wrote it
    outI,       \* output loop index
    pstack,     \* the receivedRadiance calls in progress, innermost last
    pret,       \* the value the innermost finished call returned
    presult,    \* what the camera-ray call returned
    pcause,     \* why the path last stopped growing: "miss" or "roulette"
    pstep       \* the last step of receivedRadiance: which, in which call,
                \* with which draw, indirect term and returned value

visVars == <<scene, vcall>>
renderVars == <<argc, argv1, nprocs, pcMain, team, engines, engineUsers, oob,
                samps, c, cWriters, cWrites, nextRow, rowTakers, wk, rays,
                touched, outI>>
pathVars == <<pstack, pret, presult, pcause, pstep>>
vars == <<visVars, renderVars, pathVars>>

\* The parts of the state a specification does not use stay at these values.
VisIdle ==
    /\ scene = << >>
    /\ vcall = [called |-> FALSE]

NoValue == [kind |-> "none", val |-> 0]

NoStep == [op |-> "none"]

PathIdle ==
    /\ pstack = << >> /\ pret = NoValue /\ presult = NoValue
    /\ pcause = "none" /\ pstep = NoStep

RenderIdle ==
    /\ argc = 0 /\ argv1 = << >> /\ nprocs = 0 /\ pcMain = "off" /\ team = 0
    /\ engines = << >> /\ engineUsers = << >> /\ oob = FALSE /\ samps = 0
    /\ c = << >> /\ cWriters = << >> /\ cWrites = << >> /\ nextRow = 0
    /\ rowTakers = << >> /\ wk = << >> /\ rays = << >>
    /\ touched = << >> /\ outI = 0

----------------------------------------------------------------------------
(* Bounds of the model.                                                    *)

MaxCoord == 4       \* points and sphere centres lie in 0..MaxCoord on the x axis
MaxSpheres == 2     \* at most this many spheres in a scene
MaxRad == 2         \* sphere radii range over 1..MaxRad
w == 1              \* image width (480 in main)
h == 2              \* image height (360 in main)
MaxProcs == 2       \* omp_get_num_procs() ranges over 1..MaxProcs
MaxPathDraws == 1   \* one receivedRadiance call makes 0..MaxPathDraws rng() calls
MaxRadiance == 1    \* one receivedRadiance call returns 0..MaxRadiance
EnginePeriod == 2   \* a generator has EnginePeriod states

----------------------------------------------------------------------------
(* Vec (lines 41-54).                                                      *)

Vec(x_, y_, z_) == [x |-> x_, y |-> y_, z |-> z_]
VAdd(a, b) == Vec(a.x + b.x, a.y + b.y, a.z + b.z)
VSub(a, b) == Vec(a.x - b.x, a.y - b.y, a.z - b.z)
VScale(a, k) == Vec(a.x * k, a.y * k, a.z * k)
Dot(a, b) == a.x * b.x + a.y * b.y + a.z * b.z
Abs(n) == IF n < 0 THEN -n ELSE n

\* std::sqrt on the non-negative integers the model feeds it: the integer root
\* (exact on perfect squares, and the scenes below only produce those).
RECURSIVE SqrtBetween(_, _, _)
SqrtBetween(n, lo, hi) ==
    IF lo >= hi THEN lo
    ELSE LET mid == (lo + hi + 1) \div 2
         IN  IF mid * mid <= n THEN SqrtBetween(n, mid, hi)
             ELSE SqrtBetween(n, lo, mid - 1)

Sqrt(n) == SqrtBetween(n, 0, IF n < 46340 THEN n ELSE 46340)

\* Vec::normalize for a non-zero vector; exact for axis-aligned vectors.
Normalize(v) ==
    LET len == Sqrt(Dot(v, v))
    IN  Vec(v.x \div len, v.y \div len, v.z \div len)

\* eps = 1e-4 of Sphere::intersect, and the 1e-4 tolerance of isVisibile, as
\* their reciprocals: t > eps is t * EpsInv > 1 on integers.
EpsInv == 10000
TolInv == 10000

\* inf = 1e20 of intersect: larger than every distance in a scene.
inf == 100000

----------------------------------------------------------------------------
(* Sphere::intersect and the scene query intersect.                        *)

\* returns distance, 0 if nohit
SphereIntersect(s, o, d) ==
    LET op == VSub(s.p, o)
        b == Dot(op, d)
        det == b * b - Dot(op, op) + s.rad * s.rad
    IN  IF det < 0 THEN 0
        ELSE LET rt == Sqrt(det)
             IN  IF (b - rt) * EpsInv > 1 THEN b - rt
                 ELSE IF (b + rt) * EpsInv > 1 THEN b + rt
                 ELSE 0

\* intersect(r, t, id): the loop runs from the last sphere down to the first
\* and replaces the current best only on a strictly smaller distance.
RECURSIVE IntersectFrom(_, _, _, _, _, _)
IntersectFrom(sc, o, d, i, t, id) ==
    IF i = 0 THEN [hit |-> t < inf, t |-> t, id |-> id]
    ELSE LET dist == SphereIntersect(sc[i], o, d)
         IN  IF dist # 0 /\ dist < t
             THEN IntersectFrom(sc, o, d, i - 1, dist, i)
             ELSE IntersectFrom(sc, o, d, i - 1, t, id)

Intersect(sc, o, d) == IntersectFrom(sc, o, d, Len(sc), inf, 0)

\* isVisibile(x, y): id and t are read after intersect whether or not it hit.
IsVisibile(sc, x, y) ==
    LET d == Normalize(VSub(y, x))
        q == Intersect(sc, x, d)
        ip == VAdd(x, VScale(d, q.t))
    IN  IF /\ Abs(ip.x - y.x) * TolInv <= 1
           /\ Abs(ip.y - y.y) * TolInv <= 1
           /\ Abs(ip.z - y.z) * TolInv <= 1
        THEN 1 ELSE 0

----------------------------------------------------------------------------
(* SpecVis: isVisibile applied to bounded scenes and points.               *)

Points == {Vec(i, 0, 0) : i \in 0..MaxCoord}

\* Spheres whose centre is on the x axis, or off it by the radius (tangent to
\* the axis) or by more (clear of it): the discriminant is a perfect square.
CandidateSpheres ==
    {[p |-> Vec(cx, cy, 0), rad |-> r] :
        cx \in 0..MaxCoord, cy \in 0..(MaxRad + 1), r \in 1..MaxRad}

NoCall == [called |-> FALSE]

InitVis ==
    /\ scene = << >>
    /\ vcall = NoCall
    /\ RenderIdle /\ PathIdle

AddSphere(s) ==
    /\ Len(scene) < MaxSpheres
    /\ s.p.y \in {0, s.rad, s.rad + 1}
    /\ ~vcall.called
    /\ scene' = Append(scene, s)
    /\ vcall' = NoCall
    /\ UNCHANGED <<renderVars, pathVars>>

CallVisible(a, b) ==
    /\ a # b
    /\ ~vcall.called
    /\ vcall' = [called |-> TRUE, a |-> a, b |-> b,
                 hit |-> Intersect(scene, a, Normalize(VSub(b, a))),
                 result |-> IsVisibile(scene, a, b)]
    /\ UNCHANGED <<scene, renderVars, pathVars>>

NextVis ==
    \/ \E s \in CandidateSpheres : AddSphere(s)
    \/ \E a \in Points, b \in Points : CallVisible(a, b)

SpecVis == InitVis /\ [][NextVis]_vars

----------------------------------------------------------------------------
(* main: argument parsing, the parallel render loop, the output loop.      *)

Digits == {"0", "1", "2", "3", "4", "5", "6", "7", "8", "9"}
DigitVal(ch) ==
    CASE ch = "0" -> 0 [] ch = "1" -> 1 [] ch = "2" -> 2 [] ch = "3" -> 3
      [] ch = "4" -> 4 [] ch = "5" -> 5 [] ch = "6" -> 6 [] ch = "7" -> 7
      [] ch = "8" -> 8 [] ch = "9" -> 9

\* atoi: leading blanks, an optional sign, then the longest run of digits;
\* 0 when there is no digit.
RECURSIVE AtoiDigits(_, _, _)
AtoiDigits(str, i, acc) ==
    IF i > Len(str) \/ str[i] \notin Digits THEN acc
    ELSE AtoiDigits(str, i + 1, acc * 10 + DigitVal(str[i]))

RECURSIVE SkipBlanks(_, _)
SkipBlanks(str, i) ==
    IF i <= Len(str) /\ str[i] = " " THEN SkipBlanks(str, i + 1) ELSE i

atoi(str) ==
    LET i == SkipBlanks(str, 1)
    IN  IF i <= Len(str) /\ str[i] = "-" THEN -AtoiDigits(str, i + 1, 0)
        ELSE IF i <= Len(str) /\ str[i] = "+" THEN AtoiDigits(str, i + 1, 0)
        ELSE AtoiDigits(str, i, 0)

\* int / int of C++: the quotient truncated toward zero.
CDiv(a, b) == IF a >= 0 THEN a \div b ELSE -((-a) \div b)

\* samps = argc == 2 ? atoi(argv[1]) / 4 : 1
SampsOf(ac, a1) == IF ac = 2 THEN CDiv(atoi(a1), 4) ELSE 1

\* Mutant: the row term is dropped.
PixelIndexNoRow(x, y) == x

\* const int i = (h - y - 1)*w + x
PixelIndex(x, y) == (h - y - 1) * w + x

\* Mutant: every thread gets the identity 0.
ThreadNumZero(k) == 0

\* omp_get_thread_num() in thread k of the team
omp_get_thread_num(k) == k

\* Mutant: one engine too few.
RngInitShort(n, seeds) == [e \in 0..(n - 2) |-> seeds[e]]

\* rng.init(nworkers): engines.resize(nworkers), each engine seeded from rd().
RngInit(n, seeds) == [e \in 0..(n - 1) |-> seeds[e]]

\* One rng() call in the thread whose omp_get_thread_num() is id: the engine
\* engines[id] steps to its next state, and the value returned is a function
\* of that state.
rng(eng, id) == [eng EXCEPT ![id] = (@ + 1) % EnginePeriod]

RECURSIVE RngTimes(_, _, _)
RngTimes(eng, id, n) == IF n = 0 THEN eng ELSE RngTimes(rng(eng, id), id, n - 1)

\* receivedRadiance(Ray(cam.o, d), 1, true) as the render loop sees it: how
\* many values it draws and what it returns are functions of the state st the
\* thread's engine is in when the call starts.
CameraPath(st) ==
    [draws |-> st % (MaxPathDraws + 1),
     radiance |-> (st + (st \div (MaxPathDraws + 1))) % (MaxRadiance + 1)]

\* clamp(r) for r = sum/samps, as a numerator over samps; r is 0 when the
\* sample loop never ran.
ClampSum(sum) ==
    IF samps <= 0 THEN 0
    ELSE IF sum < 0 THEN 0 ELSE IF sum > samps THEN samps ELSE sum

Threads == 0..(team - 1)
Pixels == 0..(w * h - 1)

\* The argv[1] strings the model runs main with.
ArgStrings ==
    { <<"3">>, <<" ", "9">>, <<"-", "8">>, <<"x">> }

InitRender ==
    /\ VisIdle /\ PathIdle
    /\ argc \in 1..2
    /\ argv1 \in (IF argc = 1 THEN {<< >>} ELSE ArgStrings)
    /\ nprocs \in 1..MaxProcs
    /\ pcMain = "init" /\ team = 0
    /\ engines = << >> /\ engineUsers = << >> /\ oob = FALSE /\ samps = 0
    /\ c = << >> /\ cWriters = << >> /\ cWrites = << >> /\ nextRow = 0
    /\ rowTakers = << >> /\ wk = << >> /\ rays = << >>
    /\ touched = << >> /\ outI = 0

\* main, lines 341-347: the generators, the sample count, the accumulators.
MainInit(seeds) ==
    /\ pcMain = "init"
    /\ engines' = RngInit(nprocs, seeds)
    /\ engineUsers' = [e \in DOMAIN RngInit(nprocs, seeds) |-> {}]
    /\ samps' = SampsOf(argc, argv1)
    /\ c' = [i \in Pixels |-> 0]
    /\ cWriters' = [i \in Pixels |-> {}]
    /\ cWrites' = [i \in Pixels |-> 0]
    /\ rays' = [i \in Pixels |-> 0]
    /\ rowTakers' = [y \in 0..(h - 1) |-> {}]
    /\ touched' = [eng |-> [e \in DOMAIN RngInit(nprocs, seeds) |-> {}],
                   acc |-> [i \in Pixels |-> {}]]
    /\ pcMain' = "fork"
    /\ UNCHANGED <<visVars, pathVars, argc, argv1, nprocs, team, oob, nextRow, wk, outI>>

\* #pragma omp parallel for schedule(dynamic, 1): the region starts with a
\* team of at most omp_set_num_threads(nworkers) threads.
ParallelBegin(n) ==
    /\ pcMain = "fork"
    /\ n \in 1..nprocs
    /\ team' = n
    /\ wk' = [k \in 0..(n - 1) |->
                [pc |-> "idle", y |-> 0, x |-> 0]]
    /\ nextRow' = 0
    /\ pcMain' = "parallel"
    /\ UNCHANGED <<visVars, pathVars, argc, argv1, nprocs, engines, engineUsers, oob,
                   samps, c, cWriters, cWrites, rowTakers, rays, touched, outI>>

\* A thread asks the dynamic schedule for its next chunk of one row.
TakeRow(k) ==
    /\ pcMain = "parallel" /\ k \in Threads
    /\ wk[k].pc = "idle"
    /\ nextRow < h
    /\ nextRow' = nextRow + 1
    /\ rowTakers' = [rowTakers EXCEPT ![nextRow] = @ \cup {k}]
    /\ wk' = [wk EXCEPT ![k] = [pc |-> "pixel", y |-> nextRow, x |-> 0]]
    /\ UNCHANGED <<visVars, pathVars, argc, argv1, nprocs, pcMain, team, engines,
                   engineUsers, oob, samps, c, cWriters, cWrites, rays,
                   touched, outI>>

\* No chunk is left: the thread waits at the barrier that ends the loop.
NoMoreRows(k) ==
    /\ pcMain = "parallel" /\ k \in Threads
    /\ wk[k].pc = "idle"
    /\ nextRow >= h
    /\ wk' = [wk EXCEPT ![k].pc = "barrier"]
    /\ UNCHANGED <<visVars, pathVars, argc, argv1, nprocs, pcMain, team, engines,
                   engineUsers, oob, samps, c, cWriters, cWrites, nextRow,
                   rowTakers, rays, touched, outI>>

\* The sample loop of one sub-pixel (lines 357-363), from engines eng: each
\* iteration makes two rng() calls for the tent filter, then calls
\* receivedRadiance, which makes its own; r sums the radiances (each weighs
\* 1/samps).
RECURSIVE SampleLoop(_, _, _, _)
SampleLoop(eng, id, s, r) ==
    IF ~(s < samps) THEN [eng |-> eng, r |-> r]
    ELSE LET tent == RngTimes(eng, id, 2)
             path == CameraPath(tent[id])
         IN  SampleLoop(RngTimes(tent, id, path.draws), id, s + 1,
                        r + path.radiance)

\* The 2x2 sub-pixel loops of one pixel (lines 354-366), from engines eng: sub
\* counts the sub-pixels done, acc is c[i]; each sub-pixel runs the sample
\* loop from a fresh r and then does c[i] = c[i] + clamp(r)*.25.
RECURSIVE SubPixelLoop(_, _, _, _)
SubPixelLoop(eng, id, sub, acc) ==
    IF ~(sub < 4) THEN [eng |-> eng, c |-> acc]
    ELSE LET loop == SampleLoop(eng, id, 0, 0)
         IN  SubPixelLoop(loop.eng, id, sub + 1, acc + ClampSum(loop.r))

\* The body of the x loop for thread k's current pixel, then x++; after the
\* last pixel of the row comes the progress report.  Between two requests to
\* the schedule a thread uses its loop variables, engines[id] and c[i] only.
\* Indexing engines outside its size is undefined behaviour: the engines are
\* then left alone and c[i] receives any value.
Pixel(k, any) ==
    /\ pcMain = "parallel" /\ k \in Threads
    /\ wk[k].pc = "pixel"
    /\ LET id == omp_get_thread_num(k)
           i == PixelIndex(wk[k].x, wk[k].y)
           drawn == samps > 0
           ok == id \in DOMAIN engines
           loop == IF ok \/ ~drawn THEN SubPixelLoop(engines, id, 0, c[i])
                   ELSE [eng |-> engines, c |-> c[i] + any]
       IN  /\ engines' = loop.eng
           /\ oob' = (oob \/ (drawn /\ ~ok))
           /\ engineUsers' = IF drawn /\ ok
                             THEN [engineUsers EXCEPT ![id] = @ \cup {k}]
                             ELSE engineUsers
           /\ touched' = [eng |-> IF drawn /\ ok
                                  THEN [touched.eng EXCEPT ![id] = @ \cup
                                          {[x |-> wk[k].x, y |-> wk[k].y]}]
                                  ELSE touched.eng,
                          acc |-> [touched.acc EXCEPT ![i] = @ \cup
                                     {[x |-> wk[k].x, y |-> wk[k].y]}]]
           /\ rays' = [rays EXCEPT ![i] = @ + (IF drawn THEN 4 * samps ELSE 0)]
           /\ c' = [c EXCEPT ![i] = loop.c]
           /\ cWriters' = [cWriters EXCEPT ![i] = @ \cup {k}]
           /\ cWrites' = [cWrites EXCEPT ![i] = @ + 4]
           /\ wk' = [wk EXCEPT ![k] =
                       [pc |-> IF wk[k].x + 1 < w THEN "pixel" ELSE "report",
                        y |-> wk[k].y, x |-> wk[k].x + 1]]
    /\ UNCHANGED <<visVars, pathVars, argc, argv1, nprocs, pcMain, team, samps, nextRow,
                   rowTakers, outI>>

\* #pragma omp critical fprintf(stderr, ...): the progress report of a row.
Report(k) ==
    /\ pcMain = "parallel" /\ k \in Threads
    /\ wk[k].pc = "report"
    /\ wk' = [wk EXCEPT ![k].pc = "idle"]
    /\ UNCHANGED <<visVars, pathVars, argc, argv1, nprocs, pcMain, team, engines,
                   engineUsers, oob, samps, c, cWriters, cWrites, nextRow,
                   rowTakers, rays, touched, outI>>

\* The implicit barrier at the end of the parallel loop.
Join ==
    /\ pcMain = "parallel"
    /\ \A k \in Threads : wk[k].pc = "barrier"
    /\ pcMain' = "output"
    /\ outI' = 0
    /\ UNCHANGED <<visVars, pathVars, argc, argv1, nprocs, team, engines, engineUsers,
                   oob, samps, c, cWriters, cWrites, nextRow, rowTakers, wk,
                   rays, touched>>

\* The output loop (lines 376-377) reads c[outI].
WritePixel ==
    /\ pcMain = "output"
    /\ outI < w * h
    /\ outI' = outI + 1
    /\ pcMain' = IF outI + 1 < w * h THEN "output" ELSE "done"
    /\ UNCHANGED <<visVars, pathVars, argc, argv1, nprocs, team, engines, engineUsers,
                   oob, samps, c, cWriters, cWrites, nextRow, rowTakers, wk,
                   rays, touched>>

NextRender ==
    \/ \E seeds \in [0..(nprocs - 1) -> 0..(EnginePeriod - 1)] : MainInit(seeds)
    \/ \E n \in 1..MaxProcs : ParallelBegin(n)
    \/ \E k \in 0..(MaxProcs - 1) : TakeRow(k)
    \/ \E k \in 0..(MaxProcs - 1) : NoMoreRows(k)
    \/ \E k \in 0..(MaxProcs - 1), any \in 0..MaxRadiance : Pixel(k, any)
    \/ \E k \in 0..(MaxProcs - 1) : Report(k)
    \/ Join
    \/ WritePixel

SpecRender == InitRender /\ [][NextRender]_vars

----------------------------------------------------------------------------
(* Properties of the render loop.                                          *)

Started == pcMain \notin {"off", "init"}
RowOf(i) == CHOOSE y \in 0..(h - 1) : \E x \in 0..(w - 1) : PixelIndex(x, y) = i

\* C1: every rng() call made in the parallel loop advances the engine whose
\* index is the calling thread's own number, that index is inside the engines
\* rng.init created, and no engine is advanced by two threads.
C1_OwnGenerator ==
    Started =>
        /\ ~oob
        /\ DOMAIN engines = 0..(nprocs - 1)
        /\ \A k \in Threads : omp_get_thread_num(k) \in DOMAIN engines
        /\ \A e \in DOMAIN engineUsers : engineUsers[e] \subseteq {e}

\* Two threads have drawn, each from its own engine.
C1_Witness ==
    /\ Started
    /\ \E e1, e2 \in DOMAIN engineUsers :
          e1 # e2 /\ engineUsers[e1] = {e1} /\ engineUsers[e2] = {e2}

C4_AtLeastOneSample ==
    /\ Started => samps = SampsOf(argc, argv1) /\ samps >= 1
    /\ pcMain = "done" => \A i \in Pixels : rays[i] >= 4

----------------------------------------------------------------------------
(* Properties of isVisibile.  a and b lie on the x axis; a sphere meets the  *)
(* axis in the chord [p.x - half, p.x + half], half = sqrt(rad^2 - p.y^2).   *)

MeetsAxis(s) == s.p.y * s.p.y <= s.rad * s.rad
Half(s) == Sqrt(s.rad * s.rad - s.p.y * s.p.y)
Lo(a, b) == IF a.x < b.x THEN a.x ELSE b.x
Hi(a, b) == IF a.x < b.x THEN b.x ELSE a.x

\* Some point of sphere s lies on the open segment between a and b.
OnSegment(s, a, b) ==
    MeetsAxis(s) /\ s.p.x - Half(s) < Hi(a, b) /\ s.p.x + Half(s) > Lo(a, b)

\* The part of sphere s on the axis lies strictly between a and b.
StrictlyBetween(s, a, b) ==
    MeetsAxis(s) /\ Lo(a, b) < s.p.x - Half(s) /\ s.p.x + Half(s) < Hi(a, b)

SceneSpheres == {scene[i] : i \in 1..Len(scene)}

\* C10 as claimed: isVisibile(a, b) is 1 iff the nearest hit of the ray from
\* a toward b coincides with b, and 0 otherwise; it is 1 whenever nothing lies
\* on the segment between a and b (also when the ray hits nothing at all), and
\* 0 whenever a sphere lies strictly between them.
C10_Visible ==
    vcall.called =>
        /\ vcall.result \in {0, 1}
        /\ vcall.result = 1 <=>
              /\ vcall.hit.hit
              /\ VAdd(vcall.a, VScale(Normalize(VSub(vcall.b, vcall.a)),
                                      vcall.hit.t)) = vcall.b
        /\ (\A s \in SceneSpheres : ~OnSegment(s, vcall.a, vcall.b))
              => vcall.result = 1
        /\ (\E s \in SceneSpheres : StrictlyBetween(s, vcall.a, vcall.b))
              => vcall.result = 0

----------------------------------------------------------------------------
(* double: fixed point with Scale units to 1.0, products and quotients     *)
(* truncated, and the two special values a division by zero produces.      *)

Scale == 1000
Num(n) == [kind |-> "num", val |-> n]
NaN == [kind |-> "nan", val |-> 0]
Inf == [kind |-> "inf", val |-> 0]
IsNum(a) == a.kind = "num"
IsZero(a) == a.kind = "num" /\ a.val = 0

FAdd(a, b) ==
    IF a.kind = "nan" \/ b.kind = "nan" THEN NaN
    ELSE IF a.kind = "inf" \/ b.kind = "inf" THEN Inf
    ELSE Num(a.val + b.val)

FMul(a, b) ==
    IF a.kind = "nan" \/ b.kind = "nan" THEN NaN
    ELSE IF a.kind = "inf" \/ b.kind = "inf"
         THEN (IF IsZero(a) \/ IsZero(b) THEN NaN ELSE Inf)
    ELSE Num((a.val * b.val) \div Scale)

FDiv(a, b) ==
    IF a.kind = "nan" \/ b.kind = "nan" THEN NaN
    ELSE IF a.kind = "inf" THEN (IF b.kind = "inf" THEN NaN ELSE Inf)
    ELSE IF b.kind = "inf" THEN Num(0)
    ELSE IF b.val = 0 THEN (IF a.val = 0 THEN NaN ELSE Inf)
    ELSE Num((a.val * Scale) \div b.val)

\* sqrt of a value in [0, 1]
FSqrt(a) == Num(Sqrt(a.val * Scale))

\* a < b; false when either side is NaN
FLess(a, b) == IsNum(a) /\ IsNum(b) /\ a.val < b.val

One == Num(Scale)
Zero == Num(0)
PI == Num(3142)

----------------------------------------------------------------------------
(* The scene and the BRDFs, one colour channel (the first).                *)

DiffuseBRDF(kd) == [specular |-> FALSE, k |-> Num(kd)]
SpecularBRDF(ks) == [specular |-> TRUE, k |-> Num(ks)]
leftWall == DiffuseBRDF(750)
rightWall == DiffuseBRDF(250)
otherWall == DiffuseBRDF(750)
blackSurf == DiffuseBRDF(0)
brightSurf == DiffuseBRDF(900)
shinySurf == SpecularBRDF(999)

Sphere(rad_, e_, brdf_) == [rad |-> Num(rad_), e |-> Num(e_), brdf |-> brdf_]

\* spheres[0..7] of the source are spheres[1..8] here.
spheres ==
    << Sphere(100000000, 0, leftWall),  Sphere(100000000, 0, rightWall),
       Sphere(100000000, 0, otherWall), Sphere(100000000, 0, otherWall),
       Sphere(100000000, 0, otherWall), Sphere(16500, 0, brightSurf),
       Sphere(16500, 0, shinySurf),     Sphere(5000, 50000, blackSurf) >>

Light == 8      \* spheres[7], the light source of directRadiance

\* BRDF::eval(n, o, i) given n.i; matches says whether i is the mirrored
\* direction of o within the 1e-4 tolerance (only the specular BRDF asks).
Eval(brdf, ni, matches) ==
    IF ~brdf.specular THEN FMul(brdf.k, FDiv(One, PI))
    ELSE IF matches THEN FMul(brdf.k, FDiv(One, ni))
    ELSE Zero

\* uniformRandomPSA: z = sqrt(rng()); n.i is z; pdf = n.dot(i) / PI
uniformRandomPSA(xi1) ==
    LET z == FSqrt(xi1)
    IN  [ni |-> z, pdf |-> FDiv(z, PI)]

\* BRDF::sample(n, o, i, pdf), given n.o and the first value the diffuse
\* sampler draws: the mirrored direction has n.i = n.o and pdf 1.
BrdfSample(brdf, no, xi1) ==
    IF brdf.specular THEN [ni |-> no, pdf |-> One]
    ELSE uniformRandomPSA(xi1)

\* luminaireSample: pdf = 1 / (4.0 * PI * (r * r))
LuminairePdf(source) ==
    FDiv(One, FMul(FMul(Num(4 * Scale), PI), FMul(source.rad, source.rad)))

\* directRadiance(obj, r, n) for the light point luminaireSample drew: geo
\* holds n.o1, sourceNormal.(-o1), the squared distance r2 and what
\* isVisibile returned.
directRadiance(obj, geo) ==
    IF ~obj.brdf.specular
    THEN FMul(FMul(FMul(spheres[Light].e, Eval(obj.brdf, geo.nl, FALSE)),
                   geo.vis),
              FDiv(FMul(geo.nl, geo.ll), FMul(geo.r2, LuminairePdf(spheres[Light]))))
    ELSE Zero

\* p of receivedRadiance
RouletteDepth == 5
\* (a p that starts one hit late, and a p that is never below 1)
ContinueProbLate(depth) == IF depth > RouletteDepth THEN Num(900) ELSE One
ContinueProbOne(depth) == One
ContinueProb(depth) == IF depth >= RouletteDepth THEN Num(900) ELSE One

----------------------------------------------------------------------------
(* receivedRadiance as a stack of calls.                                   *)

MaxDepth == 6       \* the model stops recursing at this depth
MaxZeroDepth == 1   \* the diffuse sampler may draw exactly 0 up to this depth

\* What the model lets intersect and the geometry at a hit be.
HitIds == {1, 7, 8}
Geometries ==
    { [no |-> Num(500), nl |-> Num(500), ll |-> Num(500), r2 |-> Num(100000),
       vis |-> v] : v \in {Zero, One} }
\* The values rng() returns.
Draws == {Num(0), Num(900)}

Top == pstack[Len(pstack)]
Running(stage) == Len(pstack) > 0 /\ Top.stage = stage

Frame(depth, flag) ==
    [depth |-> depth, flag |-> flag, stage |-> "enter", id |-> 0,
     total |-> Zero, nee |-> FALSE, p |-> One, ni |-> Zero, pdf |-> Zero,
     no |-> Zero]

\* (a return that adds the emission whatever flag is)
ReturnedAlways(fr) == FAdd(spheres[fr.id].e, fr.total)
\* return flag ? obj.e + totalRad : totalRad
Returned(fr) ==
    IF fr.flag THEN FAdd(spheres[fr.id].e, fr.total) ELSE fr.total

\* Pop the innermost call, which returns v.
PopWith(v) ==
    /\ pstack' = SubSeq(pstack, 1, Len(pstack) - 1)
    /\ pret' = v
    /\ presult' = IF Len(pstack) = 1 THEN v ELSE presult

\* What pstep records of a step taken in call fr.
StepOf(op, fr, draw, recv, indirect, value) ==
    [op |-> op, fr |-> fr, draw |-> draw, recv |-> recv,
     indirect |-> indirect, value |-> value]

InitPath ==
    /\ VisIdle /\ RenderIdle
    /\ pstack = << >> /\ pret = NoValue /\ presult = NoValue
    /\ pcause = "none" /\ pstep = NoStep

\* receivedRadiance(Ray(cam.o, d.normalize()), 1, true), line 362
CallEstimate ==
    /\ pstack = << >>
    /\ pstack' = << Frame(1, TRUE) >>
    /\ pret' = NoValue /\ presult' = NoValue /\ pcause' = "none"
    /\ pstep' = StepOf("call", Frame(1, TRUE), NoValue, NoValue, NoValue, NoValue)
    /\ UNCHANGED <<visVars, renderVars>>

\* if (!intersect(r, t, id)) return Vec();
Miss ==
    /\ Running("enter")
    /\ PopWith(Zero)
    /\ pcause' = "miss"
    /\ pstep' = StepOf("miss", Top, NoValue, NoValue, NoValue, Zero)
    /\ UNCHANGED <<visVars, renderVars>>

\* The ray hits spheres[id]: lines 285-311.  The two values luminaireSample
\* draws fix the light point, whose geometry is geo.
Hit(id, geo) ==
    /\ Running("enter")
    /\ LET obj == spheres[id]
       IN  pstack' = [pstack EXCEPT ![Len(pstack)] =
              [@ EXCEPT !.stage = "roulette", !.id = id, !.no = geo.no,
                        !.nee = ~obj.brdf.specular,
                        !.total = IF ~obj.brdf.specular
                                  THEN directRadiance(obj, geo) ELSE Zero,
                        !.p = ContinueProb(Top.depth)]]
    /\ pstep' = StepOf("hit", pstack'[Len(pstack)], NoValue, NoValue, NoValue,
                       NoValue)
    /\ UNCHANGED <<visVars, renderVars, pret, presult, pcause>>

\* if (rng() < p) fails: the call returns without an indirect term.
Stop(xi) ==
    /\ Running("roulette")
    /\ ~FLess(xi, Top.p)
    /\ PopWith(Returned(Top))
    /\ pcause' = "roulette"
    /\ pstep' = StepOf("stop", Top, xi, NoValue, NoValue, Returned(Top))
    /\ UNCHANGED <<visVars, renderVars>>

\* if (rng() < p) holds: brdf.sample draws the direction i (xi1 is the first
\* value the diffuse sampler draws; the second only turns i about n), and
\* receivedRadiance(y, depth + 1, obj.brdf.isSpecular()) is called.
Continue(xi, xi1) ==
    /\ Running("roulette")
    /\ FLess(xi, Top.p)
    /\ Top.depth < MaxDepth
    /\ IsZero(xi1) => Top.depth <= MaxZeroDepth /\ ~spheres[Top.id].brdf.specular
    /\ LET smp == BrdfSample(spheres[Top.id].brdf, Top.no, xi1)
       IN  pstack' = Append(
              [pstack EXCEPT ![Len(pstack)] =
                  [@ EXCEPT !.stage = "wait", !.ni = smp.ni, !.pdf = smp.pdf]],
              Frame(Top.depth + 1, spheres[Top.id].brdf.specular))
    /\ pstep' = StepOf("continue", pstack'[Len(pstack)], xi, NoValue, NoValue,
                       NoValue)
    /\ UNCHANGED <<visVars, renderVars, pret, presult, pcause>>

\* The recursive call returned pret: lines 322-327,
\* totalRad = totalRad + pret.mult(eval(n, o, i)) * (n.dot(i) / (pdf * p)),
\* and the call returns in its turn.
Return ==
    /\ Running("wait")
    /\ LET fr == Top
           brdf == spheres[fr.id].brdf
           indirect == FMul(FMul(pret, Eval(brdf, fr.ni, TRUE)),
                            FDiv(fr.ni, FMul(fr.pdf, fr.p)))
           done == [fr EXCEPT !.total = FAdd(fr.total, indirect)]
       IN  /\ PopWith(Returned(done))
           /\ pstep' = StepOf("return", done, NoValue, pret, indirect,
                              Returned(done))
    /\ UNCHANGED <<visVars, renderVars, pcause>>

NextPath ==
    \/ CallEstimate
    \/ Miss
    \/ \E id \in HitIds, geo \in Geometries : Hit(id, geo)
    \/ \E xi \in Draws : Stop(xi)
    \/ \E xi \in Draws, xi1 \in Draws : Continue(xi, xi1)
    \/ Return

SpecPath == InitPath /\ [][NextPath]_vars

----------------------------------------------------------------------------
(* receivedRadiance without the model's depth limit.  The stack keeps      *)
(* MaxDepth calls; when the call at depth MaxDepth recurses, its callee    *)
(* takes its place, so that depth MaxDepth stands for MaxDepth and deeper  *)
(* and a path may go on for ever.  The values returned from there on are   *)
(* not those of the program; SpecPath is the specification for values.     *)

\* if (rng() < p) holds in a call the stack has no room below.
ContinueDeeper(xi) ==
    /\ Running("roulette")
    /\ FLess(xi, Top.p)
    /\ Top.depth = MaxDepth
    /\ pstack' = [pstack EXCEPT ![Len(pstack)] =
                     Frame(MaxDepth, spheres[Top.id].brdf.specular)]
    /\ pstep' = StepOf("deeper", Top, xi, NoValue, NoValue, NoValue)
    /\ UNCHANGED <<visVars, renderVars, pret, presult, pcause>>

\* One diffuse and one specular surface to hit, one light point, in view,
\* and one value drawn by the diffuse sampler: these change the values a path
\* returns, not its length.
DeepHitIds == {1, 7}
InView == CHOOSE geo \in Geometries : geo.vis = One
SamplerDraw == Num(900)

NextDeep ==
    \/ CallEstimate
    \/ Miss
    \/ \E id \in DeepHitIds : Hit(id, InView)
    \/ \E xi \in Draws : Stop(xi)
    \/ \E xi \in Draws : Continue(xi, SamplerDraw)
    \/ \E xi \in Draws : ContinueDeeper(xi)
    \/ Return

\* The program keeps running, and a roulette draw that can fail again and
\* again does fail.
FairPath ==
    /\ InitPath /\ [][NextDeep]_vars
    /\ WF_vars(NextDeep)
    /\ SF_vars(\E xi \in Draws : Stop(xi))

----------------------------------------------------------------------------
(* Claims about receivedRadiance.                                          *)

Recursed == Len(pstack') = Len(pstack) + 1
ReturnedNow == Len(pstack') = Len(pstack) - 1

\* A call ends without having recursed only when its ray missed or its
\* roulette draw was not below p.
C5_Ends ==
    (ReturnedNow /\ Top.stage # "wait") =>
        \/ Top.stage = "enter" /\ pstep'.op = "miss"
        \/ /\ Top.stage = "roulette" /\ pstep'.op = "stop"
           /\ ~FLess(pstep'.draw, Top.p)

\* C5: a call of receivedRadiance ends its recursion only on a miss or on a
\* failed roulette draw; no depth stops a call whose draw is below p from
\* recursing; and when a draw that can fail again and again does fail, every
\* call returns.
C5_Terminates ==
    /\ [][C5_Ends]_vars
    /\ [](Running("roulette") =>
            ENABLED (\E xi \in Draws : \/ Continue(xi, SamplerDraw)
                                        \/ ContinueDeeper(xi)))
    /\ (Len(pstack) > 0) ~> (Len(pstack) = 0)

\* A failed draw ended a path in the call at depth MaxDepth (or deeper),
\* past the depth at which roulette starts.
C5_Witness ==
    /\ pstep.op = "stop" /\ pstep.fr.depth = MaxDepth
    /\ ~FLess(pstep.draw, pstep.fr.p)
    /\ Len(pstack) = MaxDepth - 1

IsSpecular(id) == spheres[id].brdf.specular

\* C7: a call adds the emission of the surface it hit to what it returns iff
\* it is the call for the camera ray or the call before it hit a specular
\* surface; the direct-light term is computed at a hit iff its material is
\* not specular, and the call made from that hit has flag = isSpecular of the
\* material: of the two, exactly one accounts for the light reaching a hit.
C7_EmissionOrDirect ==
    /\ \A k \in 1..Len(pstack) :
          LET fr == pstack[k]
          IN  /\ fr.depth = k
              /\ fr.flag = (IF k = 1 THEN TRUE ELSE IsSpecular(pstack[k - 1].id))
              /\ fr.stage # "enter" => fr.nee = ~IsSpecular(fr.id)
              /\ k < Len(pstack) => fr.nee # pstack[k + 1].flag
    /\ pstep.op \in {"stop", "return"} =>
          pstep.value = IF pstep.fr.flag
                        THEN FAdd(spheres[pstep.fr.id].e, pstep.fr.total)
                        ELSE pstep.fr.total

\* The light seen in the mirror: the call that hit the light after a
\* specular bounce returned its emission.
C7_Witness ==
    /\ pstep.op = "stop" /\ pstep.fr.id = Light
    /\ pstep.fr.depth > 1 /\ pstep.fr.flag
    /\ pstep.value = spheres[Light].e

\* C8: at a hit with depth < 5, p is 1 and the draw never stops the path; at
\* depth >= 5, p is 0.9 and the path continues exactly when the draw is
\* below 0.9; a path that does not continue adds no indirect term and makes
\* no recursive call, so that a path first stops at its fifth hit.
C8_Step ==
    Running("roulette") =>
        /\ Top.p = IF Top.depth < 5 THEN Num(1000) ELSE Num(900)
        /\ Top.depth < 5 => Recursed
        /\ Top.depth >= 5 => (Recursed <=> FLess(pstep'.draw, Num(900)))
        /\ ~Recursed =>
              /\ ReturnedNow
              /\ pstep'.op = "stop" /\ pstep'.fr.total = Top.total
              /\ pret' = IF Top.flag THEN FAdd(spheres[Top.id].e, Top.total)
                                     ELSE Top.total
              /\ Top.depth >= 5

C8_Roulette == [][C8_Step]_vars

\* The draw 0.9 stopped a path at its fifth hit.
C8_Witness ==
    /\ pstep.op = "stop" /\ pstep.fr.depth = 5
    /\ pstep.draw = Num(900)
    /\ Len(pstack) = 4

\* C9 as claimed: whenever the pdf that divides the indirect term is exactly
\* zero the term is zero, and no infinite or NaN value is produced or reaches
\* the radiance that is returned.
C9_ZeroPdfZeroTerm ==
    /\ pstep.op = "return" =>
          /\ IsZero(pstep.fr.pdf) => pstep.indirect = Zero
          /\ IsNum(pstep.indirect) /\ IsNum(pstep.value)
    /\ presult.kind \in {"none", "num"}

====
